---- MODULE Spec2Model ----
(***************************************************************************)
(* Model of the match coordinator of scripts/server.ts: the Room state     *)
(* machine, the RoomsMap registry and the per-connection message router.   *)
(*                                                                         *)
(* JavaScript scheduling is modelled as it runs: a handler executes        *)
(* synchronously up to its first await; the rest of it is a microtask.     *)
(* Microtasks run in FIFO order as soon as the call stack is empty, before *)
(* any other event (timer, close, data of another socket).  The only code  *)
(* that can run between an await and its continuation is the handler of a  *)
(* further frame of the same data chunk of the same socket, which the      *)
(* WebSocket receiver may emit synchronously in one loop.                  *)
(***************************************************************************)
EXTENDS Integers, Sequences, FiniteSets, TLC

VARIABLES
    alive,       \* the server process is running
    now,         \* Date.now(), in milliseconds
    registry,    \* RoomsMap.rooms : room id -> Room object (0 = absent)
    heap,        \* the Room objects, by object identity
    sock,        \* per connection: readyState, currentRoom, selfId
    microtasks,  \* continuations of suspended async functions, FIFO
    chunk,       \* socket whose data chunk is being dispatched (0 = none)
    sent,        \* messages written to sockets by the last step, in order
    last,        \* what the last step was
    roundMsg,    \* per Room object: last of game_start / game_over broadcast
    host,        \* the host's built-in objects that every vm context is handed
    judged       \* the calls of evaluateSolution made so far: code, problem, verdict

vars == <<alive, now, registry, heap, sock, microtasks, chunk, sent, last, roundMsg,
          host, judged>>

----------------------------------------------------------------------------
(* Bounds of the model *)

MaxAttempts == 1      \* submissions counted in a room between two rematches
MaxClock == 1
MaxFlights == 2    \* judged submissions per Room where verdicts overlap         \* clock advances

Sockets == {1, 2, 3, 4, 5, 6}   \* every connection the model can name
Clients == {1, 2, 3, 4}          \* the connections that are opened under Spec
Submitters == {1, 2}             \* the clients that submit code: the first joiner
                                 \* of either team
ObjIds == {1, 2}
RoomIds == {"R1", "R2"}
Codes == {"correct", "wrong", "syntax"}
JudgeCodes == Codes \cup {"random", "marking"}   \* the codes handed to the judge alone
JudgeProblems == {"two-sum-easy", "valid-anagram"}

----------------------------------------------------------------------------
(* Program constants *)

GAME_SECONDS == 1200
ROOM_CAPACITY == 4

Null == "null"
NoRoom == [self |-> 0]

\* seedProblems(): the (difficulty, topic) of each seeded problem
seedProblems ==
    { [id |-> "two-sum-easy",    difficulty |-> "Easy",   topic |-> "Arrays"],
      [id |-> "valid-anagram",   difficulty |-> "Easy",   topic |-> "Strings"],
      [id |-> "max-depth-tree",  difficulty |-> "Medium", topic |-> "Trees"],
      [id |-> "num-islands",     difficulty |-> "Medium", topic |-> "Graphs"],
      [id |-> "edit-distance",   difficulty |-> "Hard",   topic |-> "DP"],
      [id |-> "course-schedule", difficulty |-> "Hard",   topic |-> "Graphs"] }

\* the categories the modelled clients ask for: one seeded, one with no problem
Categories ==
    { [difficulty |-> "Easy", topic |-> "Arrays"],
      [difficulty |-> "Easy", topic |-> "Trees"] }

\* clock step: one round (the 1 Hz ticks in between all do the same thing)
ClockStep == GAME_SECONDS * 1000

----------------------------------------------------------------------------
(* Repo.getRandomProblem: the settled value of the promise it returns *)

getRandomProblemPool(difficulty, topic) ==
    { p.id : p \in { q \in seedProblems : q.difficulty = difficulty /\ q.topic = topic } }

\* outcomes of the call: a problem of the pool, or a rejection when it is empty
getRandomProblem(difficulty, topic) ==
    LET pool == getRandomProblemPool(difficulty, topic)
    IN  IF pool = {} THEN {"reject"} ELSE pool

\* evaluateSolution: the outcomes of one call, each with the verdict (true,
\* false, or an exception: compile error, not found, runtime error) and the host
\* objects as the call leaves them. The context is new for each call, but the
\* Math, JSON, Number, String, Array and Object it holds are the host's own
\* objects: the code can call Math.random and can store properties on them.
\*   "correct"  solves the problem; "wrong" returns a wrong value;
\*   "syntax"   does not compile;
\*   "random"   returns the right value when Math.random() < 0.5;
\*   "marking"  returns the right value when Math.seen is set, and sets it.
evaluateSolution(code, problem, h) ==
    CASE code = "correct" -> {[value |-> "true", host |-> h]}
      [] code = "wrong"   -> {[value |-> "false", host |-> h]}
      [] code = "random"  -> {[value |-> v, host |-> h] : v \in {"true", "false"}}
      [] code = "marking" -> {[value |-> IF h = "marked" THEN "true" ELSE "false",
                               host |-> "marked"]}
      [] OTHER            -> {[value |-> "throw", host |-> h]}

\* evaluateSolution test by test. A submission is described by what it does in
\* the harness: whether the wrapped script runs (compiles), whether it leaves a
\* function of the problem's name (defines), whether its top-level code replaces
\* JSON.stringify of the shared JSON object by a function that returns "[]"
\* (patches), and what the call of each test does: the value it returns, or
\* "throw" for an exception or the 1000 ms timeout.
JsValues == {"[0,1]", "[1,2]", "undefined", "NaN"}

\* problem.tests of two-sum-easy: the expected value of each test
tests(problem) ==
    IF problem = "two-sum-easy"
    THEN <<[expected |-> "[0,1]"], [expected |-> "[1,2]"], [expected |-> "[0,1]"]>>
    ELSE <<[expected |-> "true"], [expected |-> "false"]>>

Programs ==
    [compiles : BOOLEAN, defines : BOOLEAN, patches : BOOLEAN,
     returns : [1..3 -> JsValues \cup {"throw"}]]

\* JSON.stringify as the host finds it: undefined has no text, NaN is written null
stringify(v, h) ==
    IF h = "patched" THEN "[]"
    ELSE CASE v = "undefined" -> Null
           [] v = "NaN"       -> "null"
           [] OTHER           -> v

deepEqual(a, b, h) == stringify(a, h) = stringify(b, h)

\* the loop over problem.tests from test i on; ran counts the calls made
RECURSIVE runTests(_, _, _, _)
runTests(program, ts, i, h) ==
    IF i > Len(ts) THEN [value |-> "true", ran |-> Len(ts), host |-> h]
    ELSE IF program.returns[i] = "throw"
         THEN [value |-> "throw runtime", ran |-> i, host |-> h]
         ELSE IF ~deepEqual(program.returns[i], ts[i].expected, h)
              THEN [value |-> "false", ran |-> i, host |-> h]
              ELSE runTests(program, ts, i + 1, h)

evaluateProgram(program, problem, h) ==
    IF ~program.compiles THEN [value |-> "throw compile", ran |-> 0, host |-> h]
    ELSE LET loaded == IF program.patches THEN "patched" ELSE h
         IN  IF ~program.defines
             THEN [value |-> "throw not found", ran |-> 0, host |-> loaded]
             ELSE runTests(program, tests(problem), 1, loaded)

----------------------------------------------------------------------------
(* Room *)

NoPlayers == [p \in {} |-> Null]

\* new Room(id, difficulty, topic); `self` is the identity of the object
NewRoom(o, id, difficulty, topic) ==
    [ self |-> o, id |-> id, difficulty |-> difficulty, topic |-> topic,
      players |-> NoPlayers, started |-> FALSE, winner |-> Null,
      problem |-> Null, endAt |-> 0, timer |-> FALSE, intervals |-> 0 ]

\* a message as written to the sockets `to`; `room`, `started` and `winner` record
\* the Room that sent it and its fields at the moment of the send
Msg(type, to, arg, r) ==
    [type |-> type, to |-> to, arg |-> arg,
     room |-> r.self, started |-> r.started, winner |-> r.winner]

\* safeSend: a payload is written only to a socket whose readyState is OPEN
safeSend(ws, type, arg, r) ==
    IF sock[ws].state = "open" THEN <<Msg(type, {ws}, arg, r)>> ELSE << >>

\* Room.broadcast: one payload to every player's socket, through safeSend
broadcast(r, type, arg) ==
    <<Msg(type, {p \in DOMAIN r.players : sock[p].state = "open"}, arg, r)>>

broadcastState(r) == broadcast(r, "room_state", Null)

Res(r, out, tasks) == [room |-> r, out |-> out, tasks |-> tasks]

countTeam(r, t) == Cardinality({p \in DOMAIN r.players : r.players[p].team = t})

\* mutant: every new player is put in team A
addPlayerTeamAlwaysA(r) == "A"

\* mutant: teams alternate with the number of players present
addPlayerTeamAlternate(r) == IF Cardinality(DOMAIN r.players) % 2 = 0 THEN "A" ELSE "B"

\* Room.addPlayer, past its capacity check
addPlayerTeam(r) == IF countTeam(r, "A") <= countTeam(r, "B") THEN "A" ELSE "B"

\* mutant: the capacity check lets a fifth player in
addPlayerFullOffByOne(r) == Cardinality(DOMAIN r.players) > ROOM_CAPACITY

addPlayerFull(r) == Cardinality(DOMAIN r.players) >= ROOM_CAPACITY

addPlayer(r, pid) ==
    LET p  == [team |-> addPlayerTeam(r), ready |-> FALSE, attempts |-> 0, errors |-> 0]
        r1 == [r EXCEPT !.players = (pid :> p) @@ r.players]
    IN  Res(r1, broadcastState(r1), << >>)

\* mutant: a departure during a round concludes it
removePlayerConcludes(r, id) ==
    LET r1 == [r EXCEPT !.players = [p \in (DOMAIN r.players) \ {id} |-> r.players[p]]]
    IN  IF DOMAIN r1.players = {} THEN Res([r1 EXCEPT !.players = NoPlayers], << >>, << >>)
        ELSE IF r1.started
        THEN LET r2 == [r1 EXCEPT !.started = FALSE, !.timer = FALSE, !.intervals = 0]
             IN  Res(r2, broadcast(r2, "game_over", Null) \o broadcastState(r2), << >>)
        ELSE Res(r1, broadcastState(r1), << >>)

removePlayer(r, id) ==
    LET r1 == [r EXCEPT !.players = [p \in (DOMAIN r.players) \ {id} |-> r.players[p]]]
    IN  IF DOMAIN r1.players = {} THEN Res([r1 EXCEPT !.players = NoPlayers], << >>, << >>)
        ELSE Res(r1, broadcastState(r1), << >>)

stopTimer(r) ==
    [r EXCEPT !.intervals = IF r.timer THEN r.intervals - 1 ELSE r.intervals,
              !.timer = FALSE]

startTimer(r) ==
    IF r.endAt = 0 THEN r
    ELSE LET r1 == stopTimer(r)
         IN  [r1 EXCEPT !.timer = TRUE, !.intervals = r1.intervals + 1]

\* mutant: start keeps the winner of the round before
startKeepWinner(r, pick) ==
    Res([r EXCEPT !.started = TRUE], << >>,
        <<[kind |-> "start", room |-> r.self, player |-> 0, team |-> Null, value |-> pick]>>)

\* Room.start up to its await: the call of getRandomProblem has settled to `pick`
start(r, pick) ==
    Res([r EXCEPT !.started = TRUE, !.winner = Null], << >>,
        <<[kind |-> "start", room |-> r.self, player |-> 0, team |-> Null, value |-> pick]>>)

\* mutant: the start condition without the player count
tryStartGuardNoCount(r) ==
    /\ ~r.started
    /\ \A p \in DOMAIN r.players : r.players[p].ready

tryStartGuard(r) ==
    /\ ~r.started
    /\ Cardinality(DOMAIN r.players) = ROOM_CAPACITY
    /\ \A p \in DOMAIN r.players : r.players[p].ready

tryStart(r, pick) ==
    IF tryStartGuard(r) THEN start(r, pick) ELSE Res(r, << >>, << >>)

setReady(r, id, ready, pick) ==
    IF id \in DOMAIN r.players
    THEN LET r1 == [r EXCEPT !.players[id].ready = ready]
             t  == tryStart(r1, pick)
         IN  Res(t.room, broadcastState(r1) \o t.out, t.tasks)
    ELSE Res(r, << >>, << >>)

\* mutant: game_over is broadcast before started and winner are assigned
finishBroadcastFirst(r, winner) ==
    IF ~r.started THEN Res(r, << >>, << >>)
    ELSE LET r1 == stopTimer([r EXCEPT !.started = FALSE, !.winner = winner])
         IN  Res(r1, broadcast(r, "game_over", winner) \o broadcastState(r1), << >>)

\* mutant: the round is concluded without stopping the timer
finishKeepTimer(r, winner) ==
    IF ~r.started THEN Res(r, << >>, << >>)
    ELSE LET r1 == [r EXCEPT !.started = FALSE, !.winner = winner]
         IN  Res(r1, broadcast(r1, "game_over", winner) \o broadcastState(r1), << >>)

\* mutant: a conclusion is taken although the round is no longer started
finishUnguarded(r, winner) ==
    LET r1 == stopTimer([r EXCEPT !.started = FALSE, !.winner = winner])
    IN  Res(r1, broadcast(r1, "game_over", winner) \o broadcastState(r1), << >>)

finish(r, winner) ==
    IF ~r.started THEN Res(r, << >>, << >>)
    ELSE LET r1 == stopTimer([r EXCEPT !.started = FALSE, !.winner = winner])
         IN  Res(r1, broadcast(r1, "game_over", winner) \o broadcastState(r1), << >>)

\* mutant: the error counters survive the rematch
rematchKeepErrors(r) ==
    LET r1 == [r EXCEPT
                 !.players = [p \in DOMAIN r.players |->
                                [r.players[p] EXCEPT !.ready = FALSE, !.attempts = 0]],
                 !.started = FALSE, !.winner = Null, !.problem = Null, !.endAt = 0]
        r2 == stopTimer(r1)
    IN  Res(r2, broadcastState(r2), << >>)

rematch(r) ==
    LET r1 == [r EXCEPT
                 !.players = [p \in DOMAIN r.players |->
                                [r.players[p] EXCEPT !.ready = FALSE,
                                                     !.attempts = 0, !.errors = 0]],
                 !.started = FALSE, !.winner = Null, !.problem = Null, !.endAt = 0]
        r2 == stopTimer(r1)
    IN  Res(r2, broadcastState(r2), << >>)

\* Room.handleSubmit up to its await: evaluateSolution has run and settled
\* mutant: the early return does not look at started
handleSubmitSkipsNoStarted(r, fromId) ==
    fromId \notin DOMAIN r.players \/ r.problem = Null

\* (ok is the verdict of that call)
handleSubmitSkips(r, fromId) ==
    fromId \notin DOMAIN r.players \/ r.problem = Null \/ ~r.started

handleSubmit(r, fromId, ok) ==
    IF handleSubmitSkips(r, fromId)
    THEN Res(r, << >>, << >>)
    ELSE Res([r EXCEPT !.players[fromId].attempts = @ + 1], << >>,
             <<[kind |-> "submit", room |-> r.self, player |-> fromId,
                team |-> r.players[fromId].team, value |-> ok]>>)

\* p.errors += 1 on the Player object the handler holds
bumpErrors(r, id) ==
    IF id \in DOMAIN r.players THEN [r EXCEPT !.players[id].errors = @ + 1] ELSE r

\* mutant: the not-ok result is broadcast to the room
handleSubmitResumeBroadcastFail(r, t) ==
    IF t.value = "true"
    THEN LET f == finish(r, t.team)
         IN  Res(f.room, broadcast(r, "attempt_result", TRUE) \o f.out, << >>)
    ELSE LET r1 == bumpErrors(r, t.player)
         IN  Res(r1, broadcast(r1, "attempt_result", FALSE) \o broadcastState(r1), << >>)

\* Room.handleSubmit after its await
handleSubmitResume(r, t) ==
    IF t.value = "true"
    THEN LET f == finish(r, t.team)
         IN  Res(f.room, broadcast(r, "attempt_result", TRUE) \o f.out, << >>)
    ELSE LET r1 == bumpErrors(r, t.player)
         IN  Res(r1, safeSend(t.player, "attempt_result", FALSE, r1) \o broadcastState(r1),
                 << >>)

\* Room.start after its await, when getRandomProblem resolved
\* the payload of game_start
gameStart(r) == [problem |-> r.problem, endAt |-> r.endAt]

\* mutant: the round length is added as seconds to a clock in milliseconds
startResumeSeconds(r, t) ==
    LET r1 == [r EXCEPT !.problem = t.value, !.endAt = now + GAME_SECONDS]
    IN  Res(startTimer(r1),
            broadcast(r1, "game_start", gameStart(r1)) \o broadcastState(r1), << >>)

startResume(r, t) ==
    LET r1 == [r EXCEPT !.problem = t.value, !.endAt = now + GAME_SECONDS * 1000]
    IN  Res(startTimer(r1),
            broadcast(r1, "game_start", gameStart(r1)) \o broadcastState(r1), << >>)

\* mutant: the deadline itself does not count as expired
timerTickLate(r) ==
    IF r.endAt = 0 THEN Res(r, << >>, << >>)
    ELSE IF now > r.endAt THEN finish(stopTimer(r), Null)
    ELSE Res(r, broadcast(r, "timer_sync", r.endAt), << >>)

\* the setInterval callback of Room.startTimer
timerTick(r) ==
    IF r.endAt = 0 THEN Res(r, << >>, << >>)
    ELSE IF now >= r.endAt THEN finish(stopTimer(r), Null)
    ELSE Res(r, broadcast(r, "timer_sync", r.endAt), << >>)

----------------------------------------------------------------------------
(* RoomsMap *)

\* the Room object getOrCreate returns: the registered one, else a new object
getOrCreateObj(id) ==
    IF registry[id] # 0 THEN registry[id]
    ELSE CHOOSE o \in ObjIds : heap[o] = NoRoom /\ \A q \in ObjIds : heap[q] = NoRoom => o <= q

getOrCreate(id, difficulty, topic) ==
    IF registry[id] # 0 THEN heap[registry[id]]
    ELSE NewRoom(getOrCreateObj(id), id, difficulty, topic)

\* mutant: an emptied Match stays registered
removeIfEmptyNever(reg, h, id) == reg

\* RoomsMap.removeIfEmpty, given the heap as removePlayer left it
removeIfEmpty(reg, h, id) ==
    IF reg[id] # 0 /\ DOMAIN h[reg[id]].players = {} THEN [reg EXCEPT ![id] = 0] ELSE reg

----------------------------------------------------------------------------
(* The event loop *)

\* a Room object is reachable from the registry, a live interval or a continuation
Reachable(o, h, reg, mt) ==
    /\ h[o] # NoRoom
    /\ \/ \E id \in RoomIds : reg[id] = o
       \/ h[o].intervals > 0
       \/ \E i \in 1..Len(mt) : mt[i].room = o

RoundMsgs(out, o) ==
    SelectSeq(out, LAMBDA m : m.room = o /\ m.type \in {"game_start", "game_over"})

\* the state a step leaves: heap h, registry reg, microtask queue mt, output out
Commit(h, reg, mt, out, lst) ==
    /\ registry' = reg
    /\ microtasks' = mt
    /\ heap' = [o \in ObjIds |-> IF Reachable(o, h, reg, mt) THEN h[o] ELSE NoRoom]
    /\ roundMsg' = [o \in ObjIds |->
                      IF ~Reachable(o, h, reg, mt) THEN "none"
                      ELSE IF RoundMsgs(out, o) # << >>
                      THEN RoundMsgs(out, o)[Len(RoundMsgs(out, o))].type
                      ELSE roundMsg[o]]
    /\ sent' = out
    /\ last' = lst
    /\ UNCHANGED judged

Last(op, who, room, value) == op

\* a macrotask (timer, close, connection, data of a socket) runs on an empty stack
\* with no microtask pending
Idle == alive /\ microtasks = << >>

\* a frame of socket s is dispatched: as a macrotask, or as a further frame of the
\* chunk whose handlers left the pending microtasks
CanDispatch(s) ==
    /\ alive
    /\ sock[s].state = "open"
    /\ microtasks = << >> \/ chunk = s

RouterMsg(type, to, arg) ==
    [type |-> type, to |-> to, arg |-> arg, room |-> 0, started |-> FALSE, winner |-> Null]

SumAttempts(r) ==
    LET RECURSIVE Sum(_)
        Sum(S) == IF S = {} THEN 0
                  ELSE LET p == CHOOSE x \in S : TRUE
                       IN  r.players[p].attempts + Sum(S \ {p})
    IN  Sum(DOMAIN r.players)

\* wss.on("connection"): connections are numbered in the order they are accepted
Connect(s) ==
    /\ Idle
    /\ sock[s].state = "new"
    /\ \A q \in Sockets : q < s => sock[q].state # "new"
    /\ sock' = [sock EXCEPT ![s].state = "open"]
    /\ chunk' = 0
    /\ UNCHANGED <<alive, now, host>>
    /\ Commit(heap, registry, microtasks, << >>, Last("connect", s, 0, Null))

\* mutant: a session that is attached to a room may join again
joinIgnoredNever(s) == FALSE

\* case "join_room": if (currentRoom) break
joinIgnored(s) == sock[s].currentRoom # 0

\* case "join_room"
Join(s, rid, cat) ==
    /\ CanDispatch(s)
    /\ \A q \in Sockets : q < s => ~(sock[q].state = "open" /\ sock[q].currentRoom = 0)
    /\ IF joinIgnored(s)
       THEN /\ UNCHANGED sock
            /\ Commit(heap, registry, microtasks, << >>, Last("join_ignored", s, 0, Null))
       ELSE /\ registry[rid] = 0 => \E o \in ObjIds : heap[o] = NoRoom   \* bound
            /\ LET room == getOrCreate(rid, cat.difficulty, cat.topic)
                   o    == room.self
                   reg  == [registry EXCEPT ![rid] = o]
               IN  IF addPlayerFull(room)
                   THEN /\ sock' = [sock EXCEPT ![s].selfId = 0 - s]
                        /\ Commit([heap EXCEPT ![o] = room], reg, microtasks,
                                  <<RouterMsg("error", {s}, "Room full")>>,
                                  Last("join_full", s, o, Null))
                   ELSE LET a == addPlayer(room, s)
                        IN  /\ sock' = [sock EXCEPT ![s].selfId = s, ![s].currentRoom = o]
                            /\ Commit([heap EXCEPT ![o] = a.room], reg, microtasks,
                                      a.out \o <<RouterMsg("room_state", {s}, Null)>>,
                                      Last("join", s, o, Null))
    /\ chunk' = IF microtasks' # << >> THEN s ELSE 0
    /\ UNCHANGED <<alive, now, host>>

\* a handler that calls a Room method: res is what the method returns
CallRoom(s, o, res, lst) ==
    /\ Commit([heap EXCEPT ![o] = res.room], registry, microtasks \o res.tasks, res.out, lst)
    /\ chunk' = IF microtasks' # << >> THEN s ELSE 0
    /\ UNCHANGED <<alive, now, sock>>

Skip(s, op) ==
    /\ Commit(heap, registry, microtasks, << >>, Last(op, s, 0, Null))
    /\ chunk' = IF microtasks' # << >> THEN s ELSE 0
    /\ UNCHANGED <<alive, now, sock>>

\* frames that are no message of the protocol:
\*   "not json"  JSON.parse throws: the catch answers with an error message;
\*   "unknown"   an object whose type is no case of the switch, which has no
\*               default: the handler returns without doing anything;
\*   "null"      JSON that is no object (null): reading msg.type throws in the
\*               async handler, whose rejected promise nothing handles, so the
\*               runtime ends the process or only warns (as in StartRejected)
BadFrames == {"not json", "unknown", "null"}

Malformed(s, data) ==
    /\ CanDispatch(s)
    /\ CASE data = "not json" ->
               /\ Commit(heap, registry, microtasks,
                         <<RouterMsg("error", {s}, "Invalid message")>>,
                         Last("invalid_message", s, 0, Null))
               /\ UNCHANGED alive
         [] data = "unknown" ->
               /\ Commit(heap, registry, microtasks, << >>,
                         Last("unknown_type", s, 0, Null))
               /\ UNCHANGED alive
         [] OTHER ->
               \E exits \in BOOLEAN :
                  /\ alive' = ~exits
                  /\ Commit(heap, registry, microtasks, << >>,
                            Last("handler_threw", s, 0, exits))
    /\ chunk' = IF microtasks' # << >> THEN s ELSE 0
    /\ UNCHANGED <<now, sock, host>>

\* case "ready"
Ready(s, ready) ==
    /\ CanDispatch(s)
    /\ IF sock[s].currentRoom = 0 \/ sock[s].selfId = 0
       THEN Skip(s, "ignored")
       ELSE LET r == heap[sock[s].currentRoom]
            IN  \E pick \in getRandomProblem(r.difficulty, r.topic) :
                   CallRoom(s, r.self, setReady(r, sock[s].selfId, ready, pick),
                            Last("ready", s, r.self, ready))
    /\ UNCHANGED host

\* case "submit_solution", with at most `max` judged submissions per Room
SubmitUpTo(s, code, max) ==
    /\ CanDispatch(s)
    /\ IF sock[s].currentRoom = 0 \/ sock[s].selfId = 0
       THEN Skip(s, "ignored") /\ UNCHANGED host
       ELSE LET r == heap[sock[s].currentRoom]
            IN  IF handleSubmitSkips(r, sock[s].selfId)
                THEN /\ CallRoom(s, r.self, handleSubmit(r, sock[s].selfId, Null),
                                 Last("submit", s, r.self, code))
                     /\ UNCHANGED host
                ELSE \* bound: a submission that is judged needs room under MaxAttempts
                     /\ SumAttempts(r) < max
                     /\ \E e \in evaluateSolution(code, r.problem, host) :
                           /\ CallRoom(s, r.self, handleSubmit(r, sock[s].selfId, e.value),
                                       Last("submit", s, r.self, code))
                           /\ host' = e.host

Submit(s, code) == SubmitUpTo(s, code, MaxAttempts)

\* case "rematch"
Rematch(s) ==
    /\ CanDispatch(s)
    /\ IF sock[s].currentRoom = 0
       THEN Skip(s, "ignored")
       ELSE LET r == heap[sock[s].currentRoom]
            IN  CallRoom(s, r.self, rematch(r), Last("rematch", s, r.self, Null))
    /\ UNCHANGED host

\* socket.on("close")
Close(s) ==
    /\ Idle
    /\ sock[s].state = "open"
    /\ sock' = [sock EXCEPT ![s].state = "closed", ![s].currentRoom = 0, ![s].selfId = 0]
    /\ IF sock[s].currentRoom # 0 /\ sock[s].selfId # 0
       THEN LET r   == heap[sock[s].currentRoom]
                rm  == removePlayer(r, sock[s].selfId)
                h   == [heap EXCEPT ![r.self] = rm.room]
            IN  Commit(h, removeIfEmpty(registry, h, r.id), microtasks, rm.out,
                       Last("close", s, r.self, Null))
       ELSE Commit(heap, registry, microtasks, << >>, Last("close", s, 0, Null))
    /\ chunk' = 0
    /\ UNCHANGED <<alive, now, host>>

\* an interval of Room object o fires
Tick(o) ==
    /\ Idle
    /\ heap[o] # NoRoom
    /\ heap[o].intervals > 0
    /\ LET res == timerTick(heap[o])
       IN  Commit([heap EXCEPT ![o] = res.room], registry, microtasks, res.out,
                  Last("tick", 0, o, Null))
    /\ chunk' = 0
    /\ UNCHANGED <<alive, now, sock, host>>

\* the wall clock advances (observed only by the interval callbacks and by
\* start): time passes until the deadline of a running timer is behind
AdvanceClock ==
    /\ Idle
    /\ now < MaxClock * ClockStep
    /\ \E o \in ObjIds : heap[o] # NoRoom /\ heap[o].intervals > 0 /\ heap[o].endAt > now
    /\ now' = now + ClockStep
    /\ chunk' = 0
    /\ UNCHANGED <<alive, sock, host>>
    /\ Commit(heap, registry, microtasks, << >>, Last("clock", 0, 0, Null))

\* the stack is empty: the oldest pending continuation runs
ResumeSubmit ==
    /\ alive
    /\ microtasks # << >>
    /\ Head(microtasks).kind = "submit"
    /\ LET t   == Head(microtasks)
           res == handleSubmitResume(heap[t.room], t)
       IN  Commit([heap EXCEPT ![t.room] = res.room], registry, Tail(microtasks), res.out,
                  Last("resume_submit", t.player, t.room, t.value))
    /\ chunk' = 0
    /\ UNCHANGED <<alive, now, sock, host>>

ResumeStart ==
    /\ alive
    /\ microtasks # << >>
    /\ Head(microtasks).kind = "start"
    /\ Head(microtasks).value # "reject"
    /\ LET t   == Head(microtasks)
           res == startResume(heap[t.room], t)
       IN  Commit([heap EXCEPT ![t.room] = res.room], registry, Tail(microtasks), res.out,
                  Last("resume_start", 0, t.room, t.value))
    /\ chunk' = 0
    /\ UNCHANGED <<alive, now, sock, host>>

\* getRandomProblem rejected: start() throws at its await and nothing handles the
\* rejected promise of start(); the runtime then either ends the process
\* (unhandled rejections thrown, the default since Node 15) or only warns
StartRejected ==
    /\ alive
    /\ microtasks # << >>
    /\ Head(microtasks).kind = "start"
    /\ Head(microtasks).value = "reject"
    /\ \E exits \in BOOLEAN :
          /\ alive' = ~exits
          /\ Commit(heap, registry, Tail(microtasks), << >>,
                    Last("start_rejected", 0, Head(microtasks).room, exits))
    /\ chunk' = 0
    /\ UNCHANGED <<now, sock, host>>

Init ==
    /\ alive = TRUE
    /\ now = 0
    /\ registry = [id \in RoomIds |-> 0]
    /\ heap = [o \in ObjIds |-> NoRoom]
    /\ sock = [s \in Sockets |-> [state |-> "new", currentRoom |-> 0, selfId |-> 0]]
    /\ microtasks = << >>
    /\ chunk = 0
    /\ sent = << >>
    /\ last = Last("init", 0, 0, Null)
    /\ roundMsg = [o \in ObjIds |-> "none"]
    /\ host = "intact"
    /\ judged = {}

\* four clients and one room id; each client sends join_room until it is
\* attached (the join of an attached session is an input of the other
\* specifications)
Next ==
    \/ \E s \in Clients : Connect(s)
    \/ \E s \in Clients, rid \in {"R1"}, cat \in Categories :
          ~joinIgnored(s) /\ Join(s, rid, cat)
    \/ \E s \in Clients, ready \in BOOLEAN : Ready(s, ready)
    \/ \E s \in Submitters, code \in Codes : Submit(s, code)
    \/ \E s \in Clients : Rematch(s)
    \/ \E s \in Clients : Close(s)
    \/ \E o \in ObjIds : Tick(o)
    \/ AdvanceClock
    \/ ResumeSubmit
    \/ ResumeStart
    \/ StartRejected

Spec == Init /\ [][Next]_vars

\* what the runtime does without a client asking: every live interval keeps
\* firing, the wall clock keeps advancing and pending continuations are run
Fairness ==
    /\ \A o \in ObjIds : WF_vars(Tick(o))
    /\ WF_vars(AdvanceClock)
    /\ WF_vars(ResumeSubmit)
    /\ WF_vars(ResumeStart)
    /\ WF_vars(StartRejected)

SpecFair == Spec /\ Fairness

\* only connections and joins: the lobby filling up from a fresh room
JoinClients == {1, 2, 3, 4, 5, 6}

NextJoins ==
    \/ \E s \in JoinClients : Connect(s)
    \/ \E s \in JoinClients, rid \in {"R1"}, cat \in Categories : Join(s, rid, cat)

SpecJoins == Init /\ [][NextJoins]_vars

\* connections, joins and disconnections: players come and go in the lobby
NextJoinLeave ==
    \/ \E s \in JoinClients : Connect(s)
    \/ \E s \in JoinClients, rid \in {"R1"}, cat \in Categories : Join(s, rid, cat)
    \/ \E s \in JoinClients : Close(s)

SpecJoinLeave == Init /\ [][NextJoinLeave]_vars

\* a fifth client next to four players: lobby and round start, no submissions
CrowdClients == {1, 2, 3, 4, 5}

NextCrowd ==
    \/ \E s \in CrowdClients : Connect(s)
    \/ \E s \in CrowdClients, rid \in {"R1"}, cat \in Categories : Join(s, rid, cat)
    \/ \E s \in CrowdClients, ready \in BOOLEAN : Ready(s, ready)
    \/ \E s \in CrowdClients : Rematch(s)
    \/ \E s \in CrowdClients : Close(s)
    \/ \E o \in ObjIds : Tick(o)
    \/ ResumeStart
    \/ StartRejected

SpecCrowd == Init /\ [][NextCrowd]_vars

\* frames outside the protocol arriving next to the lobby and a round start
NextProtocol ==
    \/ \E s \in Clients : Connect(s)
    \/ \E s \in Clients, cat \in {[difficulty |-> "Easy", topic |-> "Arrays"]} :
          Join(s, "R1", cat)
    \/ \E s \in Clients, ready \in BOOLEAN : Ready(s, ready)
    \/ \E s \in Clients, data \in BadFrames : Malformed(s, data)
    \/ \E s \in Clients : Close(s)
    \/ ResumeStart

SpecProtocol == Init /\ [][NextProtocol]_vars

\* the judge alone: evaluateSolution called with a code and a problem
Evaluate(code, problem) ==
    /\ alive
    /\ \E e \in evaluateSolution(code, problem, host) :
          /\ host' = e.host
          /\ judged' = judged \cup {<<code, problem, e.value>>}
    /\ UNCHANGED <<alive, now, registry, heap, sock, microtasks, chunk, sent, last,
                   roundMsg>>

NextJudge == \E code \in JudgeCodes, problem \in JudgeProblems : Evaluate(code, problem)

SpecJudge == Init /\ [][NextJudge]_vars

\* the judge test by test: one call of evaluateSolution, the last one is kept
EvaluateProgram(program, problem) ==
    /\ alive
    /\ LET e == evaluateProgram(program, problem, host)
       IN  /\ host' = e.host
           /\ judged' = {<<program, problem, e>>}
    /\ UNCHANGED <<alive, now, registry, heap, sock, microtasks, chunk, sent, last,
                   roundMsg>>

NextTests == \E program \in Programs : EvaluateProgram(program, "two-sum-easy")

SpecTests == Init /\ [][NextTests]_vars

\* one round with verdicts that overlap: two submissions of one data chunk
NextRace ==
    \/ \E s \in Clients : Connect(s)
    \/ \E s \in Clients, cat \in {[difficulty |-> "Easy", topic |-> "Arrays"]} :
          Join(s, "R1", cat)
    \/ \E s \in Clients : Ready(s, TRUE)
    \/ \E s \in Submitters, code \in {"correct", "wrong"} : SubmitUpTo(s, code, MaxFlights)
    \/ \E s \in {1} : Rematch(s)
    \/ \E o \in ObjIds : Tick(o)
    \/ AdvanceClock
    \/ ResumeSubmit
    \/ ResumeStart

SpecRace == Init /\ [][NextRace]_vars

\* two room ids side by side: the sessions that may ask for the second one
Visitors == {1, 5}

NextTwoRooms ==
    \/ \E s \in CrowdClients : Connect(s)
    \/ \E s \in Clients, cat \in Categories : Join(s, "R1", cat)
    \/ \E s \in Visitors, cat \in {[difficulty |-> "Easy", topic |-> "Arrays"]} :
          Join(s, "R2", cat)
    \/ \E s \in CrowdClients, ready \in BOOLEAN : Ready(s, ready)
    \/ \E s \in {1}, code \in {"correct", "wrong"} : Submit(s, code)
    \/ \E s \in Visitors : Rematch(s)
    \/ \E s \in CrowdClients : Close(s)
    \/ \E o \in ObjIds : Tick(o)
    \/ ResumeSubmit
    \/ ResumeStart
    \/ StartRejected

SpecTwoRooms == Init /\ [][NextTwoRooms]_vars

----------------------------------------------------------------------------
(* Properties *)

IsRoom(o) == heap[o] # NoRoom
Started(o) == IsRoom(o) /\ heap[o].started
Size(o) == Cardinality(DOMAIN heap[o].players)
AllReady(o) == \A p \in DOMAIN heap[o].players : heap[o].players[p].ready

\* the step runs the continuation of a suspended handler
IsResume == microtasks # << >> /\ microtasks' = Tail(microtasks)

\* C1: a round goes from not started to started only in a step that leaves the
\* Match with exactly 4 players, every one of them ready.
C1_StartOnlyWithFourReady ==
    [][\A o \in ObjIds :
          (~Started(o) /\ Started(o)') => (Size(o) = ROOM_CAPACITY /\ AllReady(o))']_vars

C1_Witness ==
    \E o \in ObjIds : Started(o) /\ last = "ready" /\ Size(o) = ROOM_CAPACITY /\ AllReady(o)

\* C2: in every state a handler or a timer tick can observe (no continuation
\* pending), started implies that problem and the deadline are set.
C2_StartedHasProblemAndDeadline ==
    \A o \in ObjIds :
        (alive /\ microtasks = << >> /\ Started(o))
            => (heap[o].problem # Null /\ heap[o].endAt # 0)

\* C3: whenever the judging of a submission succeeds, the ok result is broadcast
\* and followed by a game_over naming the submitter's team, and the Match is left
\* with winner = that team and started = false.
C3_PassEndsRound ==
    [][(IsResume /\ Head(microtasks).kind = "submit" /\ Head(microtasks).value = "true")
          => LET t == Head(microtasks)
             IN  /\ Len(sent') >= 2
                 /\ sent'[1].type = "attempt_result" /\ sent'[1].arg = TRUE
                 /\ sent'[2].type = "game_over" /\ sent'[2].arg = t.team
                 /\ heap'[t.room].winner = t.team
                 /\ ~heap'[t.room].started]_vars

\* C4: when the judging of a submission fails (wrong answer or exception), the
\* submitter's error counter goes up by exactly 1 and nobody else's counters
\* change, the not-ok result goes to the submitter's socket only, the room state
\* is rebroadcast, no game_over is sent and started and winner are left as they
\* were: an Active round stays Active with winner null.
C4_FailKeepsRound ==
    [][(IsResume /\ Head(microtasks).kind = "submit" /\ Head(microtasks).value # "true")
          => LET t == Head(microtasks)
                 r == heap[t.room]
                 q == heap'[t.room]
             IN  /\ DOMAIN q.players = DOMAIN r.players
                 /\ t.player \in DOMAIN r.players
                 /\ \A p \in DOMAIN r.players :
                       q.players[p] = IF p = t.player
                                      THEN [r.players[p] EXCEPT !.errors = @ + 1]
                                      ELSE r.players[p]
                 /\ Len(sent') = 2
                 /\ sent'[1].type = "attempt_result" /\ sent'[1].arg = FALSE
                 /\ sent'[1].to = {t.player}
                 /\ sent'[2].type = "room_state" /\ sent'[2].to = DOMAIN r.players
                 /\ q.started = r.started /\ q.winner = r.winner
                 /\ r.started => (q.started /\ q.winner = Null)]_vars

C4_Witness ==
    /\ last = "resume_submit"
    /\ Len(sent) = 2
    /\ sent[1].type = "attempt_result" /\ sent[1].arg = FALSE
    /\ Started(sent[1].room)
    /\ \E p \in sent[1].to : heap[sent[1].room].players[p].errors = 1

\* C5: every game_over is sent by a Match that, at the moment of the send, has
\* started = false and winner equal to the winner the message carries, which is
\* a team label or null.
C5_GameOverAfterConclusion ==
    \A i \in 1..Len(sent) :
        sent[i].type = "game_over"
            => /\ ~sent[i].started
               /\ sent[i].winner = sent[i].arg
               /\ sent[i].arg \in {"A", "B", Null}

C5_Witness ==
    \E i \in 1..Len(sent) : sent[i].type = "game_over" /\ sent[i].arg \in {"A", "B"}

\* C6: a Match has a live interval only while started, never more than one, and
\* its timer handle is set only while started.
C6_TimerOnlyWhileActive ==
    \A o \in ObjIds :
        IsRoom(o) => /\ heap[o].timer => heap[o].started
                     /\ heap[o].intervals > 0 => heap[o].started
                     /\ heap[o].intervals <= 1

\* C7: once a game_over was the last round message of a Match, no timer_sync is
\* sent by it until a game_start has been broadcast.
C7_NoSyncAfterGameOver ==
    [][\A i \in 1..Len(sent') :
          sent'[i].type = "timer_sync" => roundMsg[sent'[i].room] # "game_over"]_vars

C7_Witness ==
    \E o \in ObjIds :
        IsRoom(o) /\ roundMsg[o] = "game_over" /\ last \in {"ready", "rematch", "close"}

\* C8: a start rejected by the problem source is reported to the room as an error
\* message, the process keeps running and the round does not become Active.
C8_RejectedStartReported ==
    last = "start_rejected"
        => /\ alive
           /\ \E i \in 1..Len(sent) : sent[i].type = "error"
           /\ \A o \in ObjIds : IsRoom(o) /\ heap[o].problem = Null => ~heap[o].started

\* C9: while a handler is suspended on an await, no other handler changes a Match:
\* the only step that changes the heap is the continuation of the suspended one.
C9_HandlersAtomic ==
    [][microtasks # << >> => (IsResume \/ heap' = heap)]_vars

\* C10: with joins only, the team sizes of a Match differ by at most 1, and a
\* Match of 4 players has 2 in each team.
C10_JoinsBalanceTeams ==
    \A o \in ObjIds :
        IsRoom(o) =>
            LET a == countTeam(heap[o], "A")
                b == countTeam(heap[o], "B")
            IN  /\ a - b \in {-1, 0, 1}
                /\ Size(o) = ROOM_CAPACITY => (a = 2 /\ b = 2)

C10_Witness ==
    \E o \in ObjIds : IsRoom(o) /\ Size(o) = ROOM_CAPACITY /\ last = "join"

\* C11: under any interleaving of joins and departures, a Match that holds
\* exactly 4 players has exactly 2 of them in team A and 2 in team B.
C11_FullRoomSplitTwoTwo ==
    \A o \in ObjIds :
        (IsRoom(o) /\ Size(o) = ROOM_CAPACITY)
            => (countTeam(heap[o], "A") = 2 /\ countTeam(heap[o], "B") = 2)

\* the room is full again after two of its players left and two others joined
C11_Witness ==
    \E o \in ObjIds :
        /\ IsRoom(o) /\ Size(o) = ROOM_CAPACITY /\ last = "join"
        /\ Cardinality({s \in Sockets : sock[s].state = "closed"}) >= 2
        /\ {5, 6} \subseteq DOMAIN heap[o].players

\* C12: no Match ever holds more than 4 players, and a join to a Match that holds
\* 4 players is answered with the room-full error to the joining session alone:
\* no Match, the Registry and the pending continuations change, and the session
\* stays unattached.
C12_FullRoomRejectsJoin ==
    /\ [](\A o \in ObjIds : IsRoom(o) => Size(o) <= ROOM_CAPACITY)
    /\ [][last' = "join_full" =>
            \E s \in Sockets :
                /\ sock[s].currentRoom = 0
                /\ sock'[s].currentRoom = 0
                /\ \A q \in Sockets \ {s} : sock'[q] = sock[q]
                /\ sent' = <<RouterMsg("error", {s}, "Room full")>>
                /\ heap' = heap
                /\ registry' = registry
                /\ microtasks' = microtasks
                /\ \E o \in ObjIds : IsRoom(o) /\ Size(o) = ROOM_CAPACITY
                /\ \A o \in ObjIds : IsRoom(o) => s \notin DOMAIN heap'[o].players]_vars

\* a fifth session was turned away from a Match whose round is running
C12_Witness ==
    /\ last = "join_full"
    /\ \E o \in ObjIds : Started(o) /\ heap[o].timer /\ Size(o) = ROOM_CAPACITY

\* C13: when rematch() returns, whatever state the Match was in, every player
\* that was in it is still in it with attempts = 0, errors = 0, ready = false
\* and the team label it had.
C13_RematchResetsPlayers ==
    [][last' = "rematch" =>
          /\ sent' # << >>
          /\ LET o == sent'[1].room
             IN  /\ heap[o] # NoRoom /\ heap'[o] # NoRoom
                 /\ DOMAIN heap'[o].players = DOMAIN heap[o].players
                 /\ \A p \in DOMAIN heap[o].players :
                        /\ heap'[o].players[p].attempts = 0
                        /\ heap'[o].players[p].errors = 0
                        /\ heap'[o].players[p].ready = FALSE
                        /\ heap'[o].players[p].team = heap[o].players[p].team]_vars

\* a rematch ran in a round while a submission that handleSubmit had already
\* counted was waiting for its verdict
C13_Witness ==
    /\ last = "rematch"
    /\ microtasks # << >>
    /\ Head(microtasks).kind = "submit"
    /\ \E o \in ObjIds : IsRoom(o) /\ Size(o) = ROOM_CAPACITY /\ roundMsg[o] = "game_start"

\* C14: at any time at most one Match instance exists for a room identifier:
\* two Room objects that are alive (held by the Registry, by a pending
\* continuation or by a running interval) never carry the same id.
C14_OneMatchPerRoomId ==
    \A o1, o2 \in ObjIds :
        (IsRoom(o1) /\ IsRoom(o2) /\ heap[o1].id = heap[o2].id) => o1 = o2

C16_OtherRoomsUntouched ==
    [][\E x \in ObjIds :
          \A y \in ObjIds \ {x} :
              IsRoom(y) =>
                  /\ heap'[y] = heap[y]
                  /\ alive'
                  /\ \A i \in 1..Len(sent') :
                         sent'[i].to \cap DOMAIN heap[y].players = {}]_vars

\* C17: a join message from a session that is attached to a room changes no
\* Match and not the Registry and sends nothing; a player is added to a Match,
\* and a Match is put in the Registry, only for a session that was attached to
\* no room; so no session is a player of two Matches.
C17_AttachedJoinIgnored ==
    /\ [](\A s \in Sockets :
            Cardinality({o \in ObjIds : IsRoom(o) /\ s \in DOMAIN heap[o].players}) <= 1)
    /\ [][/\ last' = "join_ignored"
                => (heap' = heap /\ registry' = registry /\ sock' = sock /\ sent' = << >>)
          /\ \A o \in ObjIds, s \in Sockets :
                (/\ heap'[o] # NoRoom
                 /\ s \in DOMAIN heap'[o].players
                 /\ heap[o] = NoRoom \/ s \notin DOMAIN heap[o].players)
                    => (sock[s].currentRoom = 0 /\ sock'[s].currentRoom = o)
          /\ \A rid \in RoomIds :
                (registry[rid] = 0 /\ registry'[rid] # 0)
                    => \E s \in Sockets :
                          sock[s].currentRoom = 0 /\ sock'[s].currentRoom = registry'[rid]]_vars

\* a player of the first room asked to join while the other room existed too
C17_Witness ==
    /\ last = "join_ignored"
    /\ \E s \in Visitors :
          /\ sock[s].currentRoom # 0 /\ heap[sock[s].currentRoom].id = "R1"
          /\ registry["R2"] # 0

\* C18: judging is deterministic and keeps no state: all calls of
\* evaluateSolution with the same code and the same problem give the same
\* verdict, whatever was judged in between.
C18_JudgingDeterministic ==
    \A j1, j2 \in judged : (j1[1] = j2[1] /\ j1[2] = j2[2]) => j1[3] = j2[3]

\* C19: a Match whose round has concluded (game_over broadcast, no rematch since)
\* does not start a round: started goes from false to true only from the Lobby.
C19_NoStartFromConcluded ==
    [][\A o \in ObjIds :
          (~Started(o) /\ Started(o)')
              => ~(roundMsg[o] = "game_over" /\ heap[o].problem # Null)]_vars

\* C20: a Match that is started has no winner; a Match has a team as winner only
\* when it is not started, its last round message was game_over and neither a
\* rematch nor a new start has cleared the round since.
C20_WinnerOnlyWhenConcluded ==
    \A o \in ObjIds :
        IsRoom(o) =>
            /\ heap[o].started => heap[o].winner = Null
            /\ heap[o].winner \in {"A", "B", Null}
            /\ heap[o].winner # Null
                  => /\ ~heap[o].started
                     /\ roundMsg[o] = "game_over"
                     /\ heap[o].problem # Null

\* a passing submission has just given the round to its team
C20_Witness ==
    /\ last = "resume_submit"
    /\ \E o \in ObjIds : IsRoom(o) /\ heap[o].winner \in {"A", "B"}

\* C21: a timer tick of an Active Match (started, with a problem and a
\* deadline) does one of two things. At or past the deadline it stops the timer
\* and concludes the round with no winner: started = false, winner = null,
\* game_over with winner null and a room state are broadcast. Before the
\* deadline it broadcasts one timer_sync carrying the deadline and changes no
\* field of the Match. No other Match changes.
C21_TickSyncsOrTimesOut ==
    [][last' = "tick" =>
          \E o \in ObjIds :
              /\ IsRoom(o) /\ heap[o].intervals > 0
              /\ \A q \in ObjIds \ {o} : heap'[q] = heap[q]
              /\ \A i \in 1..Len(sent') : sent'[i].room = o
              /\ (heap[o].started /\ heap[o].problem # Null /\ heap[o].endAt # 0)
                    => LET r   == heap[o]
                           off == [r EXCEPT !.started = FALSE, !.winner = Null,
                                            !.timer = FALSE, !.intervals = 0]
                       IN  IF now >= r.endAt
                           THEN /\ heap'[o] \in {off, NoRoom}
                                /\ sent' = <<Msg("game_over", {p \in DOMAIN r.players :
                                                     sock[p].state = "open"}, Null, off),
                                             Msg("room_state", {p \in DOMAIN r.players :
                                                     sock[p].state = "open"}, Null, off)>>
                           ELSE /\ heap'[o] = r
                                /\ sent' = <<Msg("timer_sync", {p \in DOMAIN r.players :
                                                     sock[p].state = "open"}, r.endAt, r)>>]_vars

\* a tick has just concluded a round by timeout for the players still present
C21_Witness ==
    /\ last = "tick"
    /\ Len(sent) = 2 /\ sent[1].type = "game_over" /\ sent[1].arg = Null
    /\ sent[1].to # {}
    /\ now >= GAME_SECONDS * 1000

\* C22: the step that sets started also sets winner = null. The step that
\* completes the start sets the deadline to the time of the start plus 1200
\* seconds, installs a problem of the Match's difficulty and topic, and its
\* first message is game_start, to every member, carrying that problem and that
\* deadline. A deadline changes in no other step except to be cleared, and
\* every timer_sync comes after a game_start of its Match and carries the
\* Match's deadline.
C22_RoundStartSetsDeadline ==
    [][/\ \A o \in ObjIds :
             (~Started(o) /\ heap'[o] # NoRoom /\ heap'[o].started)
                 => heap'[o].winner = Null
       /\ last' = "resume_start"
             => LET o  == Head(microtasks).room
                    r  == heap[o]
                    r1 == heap'[o]
                IN  /\ r1 # NoRoom
                    /\ r1.endAt = now + 1200 * 1000
                    /\ r1.problem \in getRandomProblemPool(r.difficulty, r.topic)
                    /\ r1.timer
                    /\ sent' # << >>
                    /\ sent'[1].type = "game_start"
                    /\ sent'[1].room = o
                    /\ sent'[1].to = {p \in DOMAIN r.players : sock[p].state = "open"}
                    /\ sent'[1].arg = [problem |-> r1.problem, endAt |-> r1.endAt]
                    /\ \A i \in 1..Len(sent') : sent'[i].type # "timer_sync"
       /\ \A o \in ObjIds :
             (IsRoom(o) /\ heap'[o] # NoRoom /\ heap'[o].endAt # heap[o].endAt)
                 => (last' = "resume_start" \/ heap'[o].endAt = 0)
       /\ \A i \in 1..Len(sent') :
             sent'[i].type = "timer_sync"
                 => /\ roundMsg[sent'[i].room] = "game_start"
                    /\ sent'[i].arg # 0
                    /\ sent'[i].arg = heap[sent'[i].room].endAt]_vars

\* a round started after an earlier one had run out: its deadline lies 1200
\* seconds after the later start
C22_Witness ==
    /\ last = "resume_start"
    /\ now > 0
    /\ \E o \in ObjIds :
          Started(o) /\ heap[o].endAt = now + GAME_SECONDS * 1000 /\ Size(o) = ROOM_CAPACITY

\* C23: a submission handled when the sender is no player of its Match, when
\* the Match has no problem or when it is not started changes no Match, judges
\* nothing (no continuation is left, the host is untouched) and sends nothing;
\* any other submission adds exactly 1 to the sender's attempts, changes
\* nothing else of the Match and leaves one verdict pending.
C23_SubmitNoOpOutsideRound ==
    [][last' = "submit" =>
          \E s \in Sockets :
              /\ sock[s].currentRoom # 0
              /\ LET o == sock[s].currentRoom
                     r == heap[o]
                 IN  IF s \notin DOMAIN r.players \/ r.problem = Null \/ ~r.started
                     THEN /\ heap' = heap
                          /\ microtasks' = microtasks
                          /\ host' = host
                          /\ sent' = << >>
                     ELSE /\ heap' = [heap EXCEPT ![o].players[s].attempts = @ + 1]
                          /\ Len(microtasks') = Len(microtasks) + 1
                          /\ microtasks'[Len(microtasks')].kind = "submit"
                          /\ microtasks'[Len(microtasks')].player = s
                          /\ sent' = << >>]_vars

\* a submission arrived after the round was concluded and was dropped
C23_Witness ==
    /\ last = "submit"
    /\ microtasks = << >>
    /\ \E o \in ObjIds :
          IsRoom(o) /\ ~heap[o].started /\ heap[o].problem # Null /\ heap[o].winner # Null

\* C24: a rematch of a started Match leaves it not started, with winner,
\* problem and deadline cleared and the timer stopped, and sends one room state
\* and nothing else; and the aborted round produces nothing later: game_start
\* and game_over are only broadcast by, and a winner is only given to, a Match
\* that is started.
C24_RematchAbortsRound ==
    [][/\ (last' = "rematch" /\ sent' # << >> /\ Started(sent'[1].room))
             => LET r1 == heap'[sent'[1].room]
                IN  /\ r1 # NoRoom
                    /\ ~r1.started /\ r1.winner = Null /\ r1.problem = Null
                    /\ r1.endAt = 0 /\ ~r1.timer /\ r1.intervals = 0
                    /\ Len(sent') = 1 /\ sent'[1].type = "room_state"
       /\ \A i \in 1..Len(sent') :
             sent'[i].type \in {"game_start", "game_over"} => Started(sent'[i].room)
       /\ \A o \in ObjIds :
             (IsRoom(o) /\ heap'[o] # NoRoom /\ heap'[o].winner # heap[o].winner
                 /\ heap'[o].winner # Null) => Started(o)]_vars

\* C25: the departure of a player from a started Match only removes the player:
\* started, winner, problem, deadline, timer and the other players are as
\* before, no game_over is sent, and the players that remain are sent one room
\* state (nothing is sent when none remains, and the Match object is then
\* either kept alive by its timer or gone).
C25_DepartureKeepsRound ==
    [][\A s \in Sockets :
          (/\ sock[s].state = "open" /\ sock'[s].state = "closed"
           /\ sock[s].currentRoom # 0 /\ sock[s].selfId # 0
           /\ Started(sock[s].currentRoom))
              => LET o    == sock[s].currentRoom
                     r    == heap[o]
                     rest == (DOMAIN r.players) \ {s}
                     r1   == [r EXCEPT !.players = [p \in rest |-> r.players[p]]]
                 IN  /\ s \in DOMAIN r.players
                     /\ r1.started /\ r1.winner = Null
                     /\ heap'[o] \in IF rest = {}
                                     THEN {[r1 EXCEPT !.players = NoPlayers], NoRoom}
                                     ELSE {r1}
                     /\ sent' = IF rest = {} THEN << >>
                                ELSE <<Msg("room_state",
                                           {p \in rest : sock[p].state = "open"}, Null, r1)>>]_vars

\* a player left a running round and the three others were told
C25_Witness ==
    /\ last = "close"
    /\ \E o \in ObjIds :
          /\ Started(o) /\ heap[o].timer /\ Size(o) = 3
          /\ sent = broadcastState(heap[o])

\* C26: a frame that cannot be parsed or is no message of the protocol is
\* answered with one error message to its sender and nothing else happens: no
\* Match and not the Registry change and the process keeps running.
C26_ProtocolErrorReported ==
    [][last' \in {"invalid_message", "unknown_type", "handler_threw"} =>
          /\ \E s \in Sockets :
                /\ sock[s].state = "open"
                /\ Len(sent') = 1 /\ sent'[1].type = "error" /\ sent'[1].to = {s}
          /\ heap' = heap
          /\ registry' = registry
          /\ sock' = sock
          /\ alive']_vars

\* C27: evaluateSolution returns true exactly when the function exists and every
\* test returns, without an exception, a value whose JSON text is that of the
\* expected value; otherwise the first test that throws (runtime error) or
\* differs (false) decides and is the last one run; a script that leaves no
\* function gives "not found" with no test run.
C27_FirstFailingTestDecides ==
    \A j \in judged :
        LET p    == j[1]
            ts   == tests(j[2])
            e    == j[3]
            good(i) == /\ p.returns[i] # "throw"
                       /\ stringify(p.returns[i], "intact")
                             = stringify(ts[i].expected, "intact")
            bad  == {i \in 1..Len(ts) : ~good(i)}
            first == CHOOSE i \in bad : \A k \in bad : i <= k
        IN  /\ (e.value = "true") <=> (p.compiles /\ p.defines /\ bad = {})
            /\ (p.compiles /\ ~p.defines) => (e.value = "throw not found" /\ e.ran = 0)
            /\ (p.compiles /\ p.defines /\ bad # {})
                  => /\ e.ran = first
                     /\ e.value = IF p.returns[first] = "throw" THEN "throw runtime"
                                                                ELSE "false"

\* C28: a Match broadcasts at most one game_over per game_start, and a winner
\* that a conclusion has set is changed by no later verdict and no tick: it is
\* only cleared by rematch or by the next start. Of two passing verdicts in flight
\* the first to complete sets the winner and the second leaves it.
C28_OneConclusionPerRound ==
    [][\A o \in ObjIds :
          LET overs == SelectSeq(sent', LAMBDA m : m.room = o /\ m.type = "game_over")
          IN  /\ Len(overs) <= 1
              /\ Len(overs) = 1 => roundMsg[o] = "game_start"
              /\ (IsRoom(o) /\ heap[o].winner # Null /\ heap'[o] # NoRoom
                     /\ heap'[o].winner # heap[o].winner)
                    => /\ heap'[o].winner = Null
                       /\ \/ last' = "rematch"
                          \/ last' = "ready" /\ heap'[o].started]_vars

\* the second of two passing verdicts completes after the first has won the round
C28_Witness ==
    /\ last = "resume_submit"
    /\ \E o \in ObjIds :
          /\ IsRoom(o)
          /\ heap[o].winner \in {"A", "B"}
          /\ roundMsg[o] = "game_over"
          /\ \E i \in 1..Len(sent) : sent[i].type = "attempt_result" /\ sent[i].arg = TRUE
          /\ \A i \in 1..Len(sent) : sent[i].type # "game_over"

\* C29: in every state every player of every Match has
\* 0 <= errors <= attempts, also while a submission of that player is judged.
C29_ErrorsAtMostAttempts ==
    \A o \in ObjIds :
        IsRoom(o) =>
            \A p \in DOMAIN heap[o].players :
                /\ 0 <= heap[o].players[p].errors
                /\ heap[o].players[p].errors <= heap[o].players[p].attempts

\* C30: a Match that has left the Registry with its last player has no running
\* timer, and from then on it does not tick, change or broadcast.
C30_RemovedMatchIsQuiet ==
    /\ [](\A o \in ObjIds :
            (IsRoom(o) /\ \A rid \in RoomIds : registry[rid] # o)
                => (~heap[o].timer /\ heap[o].intervals = 0))
    /\ [][\A o \in ObjIds :
            (IsRoom(o) /\ \A rid \in RoomIds : registry[rid] # o)
                => /\ heap'[o] \in {heap[o], NoRoom}
                   /\ \A i \in 1..Len(sent') : sent'[i].room # o]_vars

\* C31: with the timers firing and the clock advancing, every round that is
\* started (within the modelled time) is eventually no longer started, by a
\* passing submission, the timeout or a rematch: no Match stays started forever
\* while the process runs.
C31_ActiveRoundEnds ==
    \A o \in ObjIds :
        (Started(o) /\ now < MaxClock * ClockStep) ~> (~Started(o) \/ ~alive)

====
